---------------------------- MODULE Spec2Model ----------------------------
(***************************************************************************)
(* Model of GP2toOSP.cpp: main's configuration steps 5 and 6 (the list of  *)
(* wanted MIDs and the time interval) and extractMsgs, which reads a GP2   *)
(* file line by line and writes the accepted OSP messages to the output    *)
(* file.                                                                   *)
(*                                                                         *)
(* A GP2 line is a record [tag, toks]: tag is the time tag at the start of *)
(* the line, [ok, f]: ok tells whether sscanf scans six integers from it,  *)
(* f holds them, <<day, month, year, hour, min, sec>>; toks is the         *)
(* hexadecimal dump that follows, one entry per space separated token: a   *)
(* byte 0..255 for a token of two hex digits, BAD for a token that is not  *)
(* hexadecimal.  Time is modelled in UTC without daylight saving.          *)
(***************************************************************************)
EXTENDS Integers, Sequences, FiniteSets, TLC

\* ---------------------------------------------------------------- constants
MSGSIZE == 2050
WMSGSIZE == 100
START1 == 160
START2 == 162
END1 == 176
END2 == 179
\* a token of the dump that sscanf("%x") cannot convert
BAD == 256
\* the longest input file explored, in lines
MaxLines == 3

VARIABLES
    scn,        \* which family of inputs the run draws from (fixed by Init)
    pc,         \* position in main / extractMsgs
    wmsg,       \* value of the WMSG option, [kind, list]
    WANTEDMsg,  \* unsigned char WANTEDMsg[WMSGSIZE]
    oobStores,  \* stores made through WANTEDMsg at an index >= WMSGSIZE
    window,     \* values of the FROMDATE+FROMTIME and TODATE+TOTIME options
    fromT,      \* startTime
    toT,        \* endTime
    OSPmsg,     \* unsigned char OSPmsg[MSGSIZE]: the bytes stored so far,
                \* the entries after them still hold their initial zero
    nMessages,  \* extractMsgs's counter
    outFile,    \* the bytes the output file holds
    ret,        \* value returned by extractMsgs (meaningful in done, fatal)
    diag,       \* the diagnostic logged for the last line
    nLines,     \* lines read so far
    last,       \* the last line read
    accepted    \* the lines whose record fwrite wrote in full, in order

vars == <<scn, pc, wmsg, WANTEDMsg, oobStores, window, fromT, toT, OSPmsg, nMessages,
          outFile, ret, diag, nLines, last, accepted>>

\* ------------------------------------------------------------------ helpers
Min(a, b) == IF a < b THEN a ELSE b

Max(a, b) == IF a < b THEN b ELSE a

Range(s) == {s[i] : i \in 1..Len(s)}

\* the initializer of WANTEDMsg, without the terminating 0
DefaultMIDs == <<2, 6, 7, 56, 8, 11, 12, 15, 28, 50, 64, 75>>

\* unsigned char WANTEDMsg[WMSGSIZE] = {2,6,7,56,8,11,12,15,28,50,64,75,0}
WANTEDInit == [i \in 0..(WMSGSIZE - 1) |->
                 IF i < Len(DefaultMIDs) THEN DefaultMIDs[i + 1] ELSE 0]

\* ---------------------------------------------------------------- wantedMsg
\* the index at which the scan of wantedMsg (and of addWANTED) stops:
\* the first i with WANTEDMsg[i] = 0, or WMSGSIZE
FirstZero(W) ==
    IF \E i \in 0..(WMSGSIZE - 1) : W[i] = 0
    THEN CHOOSE i \in 0..(WMSGSIZE - 1) :
             W[i] = 0 /\ \A j \in 0..(i - 1) : W[j] # 0
    ELSE WMSGSIZE

\* wantedMsg: true for every MID when WANTEDMsg[0] is 0, else when the MID is
\* in the list
wantedMsg(W, mid) ==
    \/ W[0] = 0
    \/ \E i \in 0..(FirstZero(W) - 1) : W[i] = mid

\* ---------------------------------------------------------------- addWANTED
\* atoi(ptok) stored in an unsigned char; a token is modelled by the integer
\* atoi returns for it (0 for a token that is not a number)
atoiByte(tok) == tok % 256

\* the body of the while loop, for the tokens k..Len(midList);
\* st = [W, nextPos, oob]
RECURSIVE addLoop(_, _, _)
addLoop(st, midList, k) ==
    IF k > Len(midList) THEN st
    ELSE LET v == atoiByte(midList[k])
         IN  IF st.nextPos < WMSGSIZE
             THEN addLoop([W |-> [st.W EXCEPT ![st.nextPos] = v],
                           nextPos |-> IF v # 0 THEN st.nextPos + 1
                                                ELSE st.nextPos,
                           oob |-> st.oob],
                          midList, k + 1)
             ELSE \* WANTEDMsg[WMSGSIZE] = v: a store past the end of the array
                  addLoop([W |-> st.W, nextPos |-> st.nextPos,
                           oob |-> Append(st.oob, <<st.nextPos, v>>)],
                          midList, k + 1)

\* faulty variant: appends from index 0 instead of from the end of the list
addWANTEDFromStart(W, midList) ==
    addLoop([W |-> W, nextPos |-> 0, oob |-> <<>>], midList, 1)

\* addWANTED: finds the end of the list, then appends the tokens
addWANTED(W, midList) ==
    addLoop([W |-> W, nextPos |-> FirstZero(W), oob |-> <<>>], midList, 1)

\* main, step 5: the if / else if chain on the WMSG option
setWanted(W, opt) ==
    IF opt.kind = "ALL" THEN [W |-> [W EXCEPT ![0] = 0], oob |-> <<>>]
    ELSE IF opt.kind = "RINEX" THEN [W |-> W, oob |-> <<>>]
    ELSE addWANTED(W, opt.list)

\* ------------------------------------------------------------------ dt2time
\* days from 01/01/1970 to the given civil date (what mktime computes)
DaysFromCivil(y, m, d) ==
    LET yy  == IF m <= 2 THEN y - 1 ELSE y
        era == yy \div 400
        yoe == yy - era * 400
        mp  == IF m > 2 THEN m - 3 ELSE m + 9
        doy == (153 * mp + 2) \div 5 + d - 1
        doe == yoe * 365 + yoe \div 4 - yoe \div 100 + doy
    IN  era * 146097 + doe - 719468

\* mktime on tm_mday, tm_mon, tm_year, tm_hour, tm_min, tm_sec
mktime(t) ==
    DaysFromCivil(t[3], t[2], t[1]) * 86400 + t[4] * 3600 + t[5] * 60 + t[6]

\* dt2time: the time_t of the tag, -1 when sscanf does not scan six integers
dt2time(dateAndTime) ==
    IF dateAndTime.ok THEN mktime(dateAndTime.f) ELSE -1

\* faulty variant: the end of the interval excluded
checkIntervalOpenEnd(timeTag, f, t) ==
    LET tag == dt2time(timeTag)
    IN  IF tag # -1 THEN (f <= tag) /\ (tag < t) ELSE FALSE

\* checkInterval: true when the tag converts and lies in [fromT, toT]
checkInterval(timeTag, f, t) ==
    LET tag == dt2time(timeTag)
    IN  IF tag # -1 THEN (f <= tag) /\ (tag <= t) ELSE FALSE

\* -------------------------------------------------------------- extractMsgs
\* strstr on the dump: the first position i >= from at which the tokens a, b
\* follow each other, 0 (NULL) when there is none
FindPair(toks, from, a, b) ==
    LET hits == {i \in from..(Len(toks) - 1) : toks[i] = a /\ toks[i + 1] = b}
    IN  IF hits = {} THEN 0
        ELSE CHOOSE i \in hits : \A j \in hits : i <= j

\* header = strstr(GP2line, "A0 A2")
findHeader(toks) == FindPair(toks, 1, START1, START2)

\* tail = strstr(header+5, "B0 B3"), for a header that is not NULL
findTail(toks, header) == FindPair(toks, header + 2, END1, END2)

\* the while loop that extracts the message bytes: the number of tokens
\* converted before the tail, before the first token that is not
\* hexadecimal, and before nbytesRead reaches MSGSIZE
nbytesReadOf(toks, header, tail) ==
    LET bad  == {i \in (header + 2)..(tail - 1) : toks[i] = BAD}
        stop == IF bad = {} THEN tail
                ELSE CHOOSE i \in bad : \A j \in bad : i <= j
    IN  Min(stop - (header + 2), MSGSIZE)

\* OSPmsg after OSPmsg[0..n-1] were stored from the tokens after the header
storeBytes(buf, toks, header, n) ==
    SubSeq(toks, header + 2, header + 1 + n) \o SubSeq(buf, n + 1, Len(buf))

\* OSPmsg[i]
At(buf, i) == IF i < Len(buf) THEN buf[i + 1] ELSE 0

\* if (nbytesRead>=MSGSIZE || nbytesRead<=4)
noMessageData(n) == n >= MSGSIZE \/ n <= 4

\* payloadLen = (OSPmsg[0] << 8) | OSPmsg[1]
payloadLenOf(buf) == At(buf, 0) * 256 + At(buf, 1)

\* if (nbytesRead != payloadLen+4)
lengthMismatch(n, payloadLen) == n # payloadLen + 4

\* the for loop of the checksum over OSPmsg[lo+2 .. hi+2), the sum masked
\* with 0x7FFF after every addition (evaluated by halves)
RECURSIVE checkLoop(_, _, _)
checkLoop(buf, lo, hi) ==
    IF hi <= lo THEN 0
    ELSE IF hi = lo + 1 THEN At(buf, lo + 2) % 32768
    ELSE LET mid == (lo + hi) \div 2
         IN  (checkLoop(buf, lo, mid) + checkLoop(buf, mid, hi)) % 32768

computedCheckOf(buf, payloadLen) == checkLoop(buf, 0, payloadLen)

\* faulty variant: the high byte of the checksum dropped
messageCheckLowByte(buf, payloadLen) == At(buf, payloadLen + 3)

\* messageCheck = (OSPmsg[payloadLen+2] << 8) | OSPmsg[payloadLen+3]
messageCheckOf(buf, payloadLen) ==
    At(buf, payloadLen + 2) * 256 + At(buf, payloadLen + 3)

\* faulty variant: the checksum written too
fwriteBytesWithCheck(buf, payloadLen) ==
    [i \in 1..(payloadLen + 4) |-> At(buf, i - 1)]

\* the bytes fwrite(OSPmsg, 1, payloadLen+2, outFile) is asked to write
fwriteBytes(buf, payloadLen) == [i \in 1..(payloadLen + 2) |-> At(buf, i - 1)]

\* faulty variant: the count left out of the return value
fatalReturnNoCount(n) == -4

\* return -nMessages - 4
fatalReturn(n) == -n - 4

\* faulty variant: the counter not incremented
countWrittenStuck(n) == n

\* the counter after a successful write: nMessages++
countWritten(n) == n + 1

\* One pass of the while loop of extractMsgs over a line, up to the call of
\* fwrite: what the pass ends with, the diagnostic logged, OSPmsg afterwards
\* and the bytes handed to fwrite.
lineOutcome(line, W, f, t, buf) ==
    IF ~checkInterval(line.tag, f, t)
    THEN [kind |-> "interval", diag |-> "Time tag outside interval",
          buf |-> buf, bytes |-> <<>>]
    ELSE
    LET header == findHeader(line.toks)
    IN  IF header = 0
        THEN \* strstr(header+5, ...) on a NULL header: undefined behaviour
             [kind |-> "nullheader", diag |-> "No message header or tailer",
              buf |-> buf, bytes |-> <<>>]
        ELSE
    LET tail == findTail(line.toks, header)
    IN  IF tail = 0
        THEN [kind |-> "skip", diag |-> "No message header or tailer",
              buf |-> buf, bytes |-> <<>>]
        ELSE
    LET n    == nbytesReadOf(line.toks, header, tail)
        buf2 == storeBytes(buf, line.toks, header, n)
    IN  IF noMessageData(n)
        THEN [kind |-> "skip", diag |-> "No message data",
              buf |-> buf2, bytes |-> <<>>]
        ELSE
    LET payloadLen == payloadLenOf(buf2)
    IN  IF lengthMismatch(n, payloadLen)
        THEN [kind |-> "skip", diag |-> "PayloadLen<>BytesRead",
              buf |-> buf2, bytes |-> <<>>]
        ELSE IF computedCheckOf(buf2, payloadLen) # messageCheckOf(buf2, payloadLen)
        THEN [kind |-> "skip", diag |-> "Wrong checksum",
              buf |-> buf2, bytes |-> <<>>]
        ELSE IF wantedMsg(W, At(buf2, 2))
        THEN [kind |-> "write", diag |-> "written MID",
              buf |-> buf2, bytes |-> fwriteBytes(buf2, payloadLen)]
        ELSE [kind |-> "skip", diag |-> "skipped MID",
              buf |-> buf2, bytes |-> <<>>]

\* ------------------------------------------------------------------- inputs
\* sum of the entries lo..hi of a sequence (evaluated by halves)
RECURSIVE SumSeq(_, _, _)
SumSeq(s, lo, hi) ==
    IF hi < lo THEN 0
    ELSE IF hi = lo THEN s[lo]
    ELSE LET mid == (lo + hi) \div 2
         IN  SumSeq(s, lo, mid) + SumSeq(s, mid + 1, hi)

\* the two bytes of a 16 bit value, most significant first
BigEndian(v) == <<(v \div 256) % 256, v % 256>>

\* the dump of a well formed message with the given payload: head, length,
\* payload, checksum, tail
Frame(payload) ==
    <<START1, START2>> \o BigEndian(Len(payload)) \o payload
        \o BigEndian(SumSeq(payload, 1, Len(payload)) % 32768)
        \o <<END1, END2>>

\* the dump with its payload byte k (from 1) replaced by v
MutatePayload(toks, k, v) == [toks EXCEPT ![4 + k] = v]

\* a payload of n bytes: the MID followed by n-1 bytes of value 7
FillPayload(mid, n) == [i \in 1..n |-> IF i = 1 THEN mid ELSE 7]

\* the payload of the example line of the documentation of main
DocPayload == <<51, 6, 0, 0, 0, 0, 0, 0, 0, 25, 0, 0, 0, 0, 0, 0, 100, 225>>

\* a time tag from which sscanf cannot scan six integers
TagGarbage == [ok |-> FALSE, f |-> <<0, 0, 0, 0, 0, 0>>]

TagDoc == [ok |-> TRUE, f |-> <<29, 10, 2014, 20, 31, 8>>]
TagBeforeFrom == [ok |-> TRUE, f |-> <<31, 12, 2013, 23, 59, 59>>]
TagFrom == [ok |-> TRUE, f |-> <<1, 1, 2014, 0, 0, 0>>]
TagBefore2015 == [ok |-> TRUE, f |-> <<31, 12, 2014, 23, 59, 59>>]
Tag2015 == [ok |-> TRUE, f |-> <<1, 1, 2015, 0, 0, 0>>]
TagTo == [ok |-> TRUE, f |-> <<31, 12, 2020, 23, 59, 59>>]
TagAfterTo == [ok |-> TRUE, f |-> <<1, 1, 2021, 0, 0, 0>>]

\* values of the options FROMDATE+FROMTIME and TODATE+TOTIME
DefaultWindow == [from |-> TagFrom, to |-> TagTo]

Windows(s) ==
    IF s = "frames"
    THEN {DefaultWindow, [from |-> Tag2015, to |-> TagTo],
          [from |-> TagTo, to |-> TagFrom], [from |-> TagGarbage, to |-> TagTo]}
    ELSE {DefaultWindow, [from |-> TagTo, to |-> TagFrom]}

\* n identifiers of two digits, none of them a default MID
FillList(n) == [i \in 1..n |-> 30 + (i % 20)]

\* values of the option WMSG: ALL, RINEX, RINEX,list or list; a list is given
\* by the integers atoi returns for its tokens, and its text is shorter than
\* the 300 characters addWANTED copies
Wmsgs(s) ==
    IF s = "wanted"
    THEN {[kind |-> "ALL", list |-> <<>>], [kind |-> "RINEX", list |-> <<>>]}
         \cup [kind : {"RINEX,", "LIST"},
               list : {<<99>>, <<41, 99>>, <<0, 99>>, <<99, 0>>, <<355>>,
                       <<256, 41>>, <<2>>, FillList(WMSGSIZE - 13),
                       FillList(WMSGSIZE - 12) , FillList(WMSGSIZE - 11),
                       FillList(WMSGSIZE - 13) \o <<0, 99>>}]
    ELSE {[kind |-> "ALL", list |-> <<>>], [kind |-> "RINEX", list |-> <<>>],
          [kind |-> "RINEX,", list |-> <<99>>]}

\* a valid message accepted by the default list of MIDs
GoodToks == Frame(<<2, 5>>)

SmallBodies ==
    { GoodToks,
      Frame(<<99, 1>>),
      Frame(DocPayload),
      MutatePayload(GoodToks, 2, 6),
      MutatePayload(Frame(DocPayload), 1, 2),
      <<START1, START2, 0, 2, 2, 5, 1, 7, END1, END2>>,
      <<START1, START2, 0, 3, 2, 5, 0, 7, END1, END2>>,
      <<0, 2, 2, 5, 0, 7, END1, END2>>,
      <<START1, START2, 0, 2, 2, 5, 0, 7>>,
      <<START1, START2, 0, 1, 2, 0, 2, BAD, 17, END1, END2>>,
      <<START1, START2, 0, 2, 2, BAD, 0, 7, END1, END2>>,
      <<START1, START2, 0, 0, 0, 0, END1, END2>>,
      Frame(<<END1, END2>>),
      <<40, 48, 41, START1, START2, 0, 1, 7, 0, 7, END1, END2, 1>> }

WantedBodies ==
    { GoodToks, Frame(<<99, 1>>), Frame(<<41>>), Frame(<<0, 1>>),
      <<START1, START2, 0, 2, 2, 5, 0, 7>> }

MaxBodies ==
    { GoodToks,
      Frame(FillPayload(2, MSGSIZE - 5)),
      Frame(FillPayload(2, MSGSIZE - 4)),
      Frame(FillPayload(2, MSGSIZE - 2)),
      <<0, 2, 2, 5, 0, 7, END1, END2>> }

\* the lines an input file may hold (each fits the line buffer GP2line)
Lines(s) ==
    IF s = "frames"
    THEN [tag : {TagDoc}, toks : SmallBodies]
         \cup [tag : {TagBeforeFrom, TagFrom, TagBefore2015, Tag2015, TagTo,
                      TagAfterTo, TagGarbage},
               toks : {GoodToks}]
    ELSE IF s = "wanted"
    THEN [tag : {TagDoc}, toks : WantedBodies]
         \cup [tag : {TagAfterTo}, toks : {GoodToks}]
    ELSE [tag : {TagDoc}, toks : MaxBodies]
         \cup [tag : {TagAfterTo}, toks : {GoodToks}]

\* what fwrite may return when asked for len bytes
FwriteResults(len) == {len, len - 1, 0}

\* ------------------------------------------------------------------ actions
NoLine == [tag |-> TagGarbage, toks |-> <<>>]

InitFor(s) ==
    /\ scn = s
    /\ pc = "setWanted"
    /\ wmsg = [kind |-> "unset", list |-> <<>>]
    /\ WANTEDMsg = WANTEDInit
    /\ oobStores = <<>>
    /\ window = [from |-> TagGarbage, to |-> TagGarbage]
    /\ fromT = 0
    /\ toT = 0
    /\ OSPmsg = <<>>
    /\ nMessages = 0
    /\ outFile = <<>>
    /\ ret = 0
    /\ diag = ""
    /\ nLines = 0
    /\ last = NoLine
    /\ accepted = <<>>

Init == InitFor("frames")

InitWanted == InitFor("wanted")

InitMax == InitFor("maxsize")

\* main, step 5: sets the list of wanted messages
main_setWanted ==
    /\ pc = "setWanted"
    /\ \E opt \in Wmsgs(scn) :
         LET r == setWanted(WANTEDMsg, opt)
         IN  /\ wmsg' = opt
             /\ WANTEDMsg' = r.W
             /\ oobStores' = r.oob
    /\ pc' = "setInterval"
    /\ UNCHANGED <<scn, window, fromT, toT, OSPmsg, nMessages, outFile, ret,
                   diag, nLines, last, accepted>>

\* main, step 6: sets start and end time of the interval
main_setInterval ==
    /\ pc = "setInterval"
    /\ \E w \in Windows(scn) :
         LET startTime == dt2time(w.from)
             endTime   == dt2time(w.to)
         IN  /\ window' = w
             /\ fromT' = startTime
             /\ toT' = endTime
             /\ pc' = IF startTime < 0 \/ endTime < 0 \/ startTime > endTime
                      THEN "exit1" ELSE "openFiles"
    /\ UNCHANGED <<scn, wmsg, WANTEDMsg, oobStores, OSPmsg, nMessages, outFile,
                   ret, diag, nLines, last, accepted>>

\* main, steps 7 and 8: opens the input file and creates the output file
main_openFiles ==
    /\ pc = "openFiles"
    /\ pc' \in {"reading", "exit2", "exit3"}
    /\ UNCHANGED <<scn, wmsg, WANTEDMsg, oobStores, window, fromT, toT, OSPmsg,
                   nMessages, outFile, ret, diag, nLines, last, accepted>>

\* extractMsgs: fgets returns a line, and the body of the loop runs on it
extractMsgs_line ==
    /\ pc = "reading"
    /\ nLines < MaxLines
    /\ \E line \in Lines(scn) :
         LET o == lineOutcome(line, WANTEDMsg, fromT, toT, OSPmsg)
         IN  /\ last' = line
             /\ nLines' = nLines + 1
             /\ diag' = o.diag
             /\ OSPmsg' = o.buf
             /\ IF o.kind = "write"
                THEN \E k \in FwriteResults(Len(o.bytes)) :
                       /\ outFile' = outFile \o SubSeq(o.bytes, 1, k)
                       /\ IF k = Len(o.bytes)
                          THEN /\ nMessages' = countWritten(nMessages)
                               /\ accepted' = Append(accepted, line)
                               /\ UNCHANGED <<pc, ret>>
                          ELSE /\ pc' = "fatal"
                               /\ ret' = fatalReturn(nMessages)
                               /\ UNCHANGED <<nMessages, accepted>>
                ELSE IF o.kind = "nullheader"
                THEN \* undefined behaviour: the read through header+5 faults,
                     \* or it returns and the test of header skips the line
                     /\ pc' \in {"crashed", "reading"}
                     /\ UNCHANGED <<nMessages, outFile, ret, accepted>>
                ELSE UNCHANGED <<pc, nMessages, outFile, ret, accepted>>
    /\ UNCHANGED <<scn, wmsg, WANTEDMsg, oobStores, window, fromT, toT>>

\* extractMsgs: fgets returns NULL, return nMessages
extractMsgs_eof ==
    /\ pc = "reading"
    /\ pc' = "done"
    /\ ret' = nMessages
    /\ UNCHANGED <<scn, wmsg, WANTEDMsg, oobStores, window, fromT, toT, OSPmsg,
                   nMessages, outFile, diag, nLines, last, accepted>>

Next ==
    \/ main_setWanted
    \/ main_setInterval
    \/ main_openFiles
    \/ extractMsgs_line
    \/ extractMsgs_eof

Spec == Init /\ [][Next]_vars

SpecWanted == InitWanted /\ [][Next]_vars

SpecMax == InitMax /\ [][Next]_vars

\* --------------------------------------------------- vocabulary of the claims
\* the bytes of a line's dump between head and tail that convert: the tokens
\* after the first "A0 A2" up to the first "B0 B3" after it, cut at the
\* first token that is not hexadecimal (<<>> without head or tail)
Decoded(line) ==
    LET h == FindPair(line.toks, 1, START1, START2)
        t == IF h = 0 THEN 0 ELSE FindPair(line.toks, h + 2, END1, END2)
        good == {n \in 0..Max(0, t - h - 2) :
                    \A i \in 1..n : line.toks[h + 1 + i] # BAD}
    IN  IF h = 0 \/ t = 0 THEN <<>>
        ELSE SubSeq(line.toks, h + 2,
                    h + 1 + (CHOOSE n \in good : \A m \in good : m <= n))

LacksHead(line) == FindPair(line.toks, 1, START1, START2) = 0

LacksTail(line) ==
    LET h == FindPair(line.toks, 1, START1, START2)
    IN  h # 0 /\ FindPair(line.toks, h + 2, END1, END2) = 0

DeclaredLen(d) == d[1] * 256 + d[2]

\* the record of a line: the two length bytes and the payload
RecordOf(line) ==
    LET d == Decoded(line)
    IN  <<d[1], d[2]>> \o SubSeq(d, 3, DeclaredLen(d) + 2)

PayloadOf(line) ==
    LET d == Decoded(line)
    IN  SubSeq(d, 3, DeclaredLen(d) + 2)

\* the length and checksum conditions of a valid message
ValidMessage(line) ==
    LET d == Decoded(line)
    IN  /\ Len(d) > 4
        /\ Len(d) = DeclaredLen(d) + 4
        /\ d[Len(d) - 1] * 256 + d[Len(d)]
             = SumSeq(d, 3, Len(d) - 2) % 32768

\* time tags compared field by field: year, month, day, hour, minute, second
TagKey(tag) == <<tag.f[3], tag.f[2], tag.f[1], tag.f[4], tag.f[5], tag.f[6]>>

RECURSIVE LexLE(_, _, _)
LexLE(a, b, k) ==
    IF k > Len(a) THEN TRUE
    ELSE IF a[k] < b[k] THEN TRUE
    ELSE IF a[k] > b[k] THEN FALSE
    ELSE LexLE(a, b, k + 1)

\* the tag parses to an instant of the configured interval
TagInWindow(tag) ==
    /\ tag.ok
    /\ LexLE(TagKey(window.from), TagKey(tag), 1)
    /\ LexLE(TagKey(tag), TagKey(window.to), 1)

RECURSIVE Concat(_, _)
Concat(ss, k) == IF k > Len(ss) THEN <<>> ELSE ss[k] \o Concat(ss, k + 1)

\* the payloads of a file of length prefixed records (<<>> when the file is
\* not made of whole records)
RECURSIVE ParseRecords(_)
ParseRecords(bytes) ==
    IF Len(bytes) < 2 THEN <<>>
    ELSE LET len == bytes[1] * 256 + bytes[2]
         IN  IF Len(bytes) < len + 2 THEN <<>>
             ELSE <<SubSeq(bytes, 3, len + 2)>>
                    \o ParseRecords(SubSeq(bytes, len + 3, Len(bytes)))

\* the MIDs wantedMsg accepts
AcceptedMIDs == {m \in 0..255 : wantedMsg(WANTEDMsg, m)}

Configured == pc \notin {"setWanted"}

\* every condition of acceptance
Acceptable(line) ==
    /\ TagInWindow(line.tag)
    /\ ValidMessage(line)
    /\ wantedMsg(WANTEDMsg, Decoded(line)[3])

\* the frames of the input that differ from a valid one in one payload byte
OneByteOff ==
    {MutatePayload(GoodToks, 2, 6), MutatePayload(Frame(DocPayload), 1, 2)}

\* --------------------------------------------------------------------- C1
\* C1: every record written to the output file (in full, or in part by the
\* write that failed) comes from a line whose decoded byte count is
\* payloadLen + 4, whose checksum is the masked sum of its payload, whose time
\* tag is in [fromT, toT] and whose MID wantedMsg accepts; a frame that differs
\* from a valid one in one payload byte is never written.
C1_WrittenLinesValid ==
    /\ \A i \in 1..Len(accepted) :
         /\ Acceptable(accepted[i])
         /\ accepted[i].toks \notin OneByteOff
    /\ pc = "fatal" => Acceptable(last)
    /\ (nLines > 0 /\ last.toks \in OneByteOff) => diag # "written MID"

C1_Witness ==
    /\ Len(accepted) = 2
    /\ nLines = 3
    /\ last.toks = MutatePayload(GoodToks, 2, 6)
    /\ last.tag = TagDoc
    /\ diag = "Wrong checksum"

\* --------------------------------------------------------------------- C2
\* C2: while no write has failed the output file is the concatenation, in
\* input order, of one record per accepted line, each record the two length
\* bytes followed by the payload decoded from that line, and reading the file
\* back as length prefixed records gives the accepted payloads.
C2_SinkIsRecords ==
    pc # "fatal" =>
        /\ outFile = Concat([i \in 1..Len(accepted) |-> RecordOf(accepted[i])], 1)
        /\ ParseRecords(outFile) = [i \in 1..Len(accepted) |-> PayloadOf(accepted[i])]
        /\ \A i \in 1..Len(accepted) :
             Len(RecordOf(accepted[i])) = DeclaredLen(Decoded(accepted[i])) + 2

C2_Witness ==
    /\ pc = "done"
    /\ Len(accepted) = 3
    /\ accepted[1].toks = Frame(DocPayload)
    /\ accepted[2].toks = GoodToks
    /\ accepted[3].toks = Frame(<<99, 1>>)

\* --------------------------------------------------------------------- C3
\* C3: a short write puts extractMsgs in the fatal state with the return value
\* -n - 4 < 0, n the number of records written in full before; from then on
\* no line is read and nothing is written.
C3_FatalStops ==
    [][ /\ (pc # "fatal" /\ pc' = "fatal") =>
              /\ ret' = -Len(ParseRecords(outFile)) - 4
              /\ ret' = -Len(accepted) - 4
              /\ ret' < 0
              /\ nMessages' = nMessages
        /\ pc = "fatal" => UNCHANGED vars ]_vars

C3_Witness ==
    /\ pc = "fatal"
    /\ ret = -5
    /\ nLines = 2
    /\ Len(accepted) = 1

\* --------------------------------------------------------------------- C4
\* C4: nMessages is the number of records written so far; a line raises it by
\* one exactly when it is acceptable and its write succeeds; at the end of the
\* input the return value is that count, which is not negative.
C4_CountIsWritten ==
    [][ /\ nMessages' = Len(accepted')
        /\ pc' # "fatal" => nMessages' = Len(ParseRecords(outFile'))
        /\ nLines' = nLines + 1 =>
              nMessages' = nMessages
                  + (IF Acceptable(last') /\ pc' # "fatal" THEN 1 ELSE 0)
        /\ pc' = "done" => (ret' = nMessages /\ ret' >= 0) ]_vars

C4_Witness ==
    /\ pc = "done"
    /\ ret = 2
    /\ nLines = 3
    /\ nMessages = 2

\* --------------------------------------------------------------------- C5
\* C5: a line passes the interval check exactly when its time tag parses to an
\* instant t with fromT <= t <= toT (both ends included); a line that does
\* not pass is not written and the loop goes on.
C5_IntervalInclusive ==
    [][ nLines' = nLines + 1 =>
          /\ (diag' = "Time tag outside interval") <=> ~TagInWindow(last'.tag)
          /\ ~TagInWindow(last'.tag) =>
                (outFile' = outFile /\ nMessages' = nMessages /\ pc' = "reading") ]_vars

C5_Witness ==
    /\ nLines = 3
    /\ last.tag = TagTo
    /\ diag = "written MID"
    /\ Len(accepted) = 1
    /\ accepted[1].tag = TagTo

\* --------------------------------------------------------------------- C6
\* the identifiers of a list as addWANTED stores them: modulo 256, an
\* identifier that evaluates to 0 dropped
ListedMIDs(list) == {list[i] % 256 : i \in 1..Len(list)} \ {0}

\* C6 as stated: ALL accepts 0..255, RINEX exactly the default set, and
\* RINEX,<list> the default set plus each listed identifier (an identifier
\* read as the byte it denotes).
C6_AsStated ==
    Configured =>
        /\ wmsg.kind = "ALL" => AcceptedMIDs = 0..255
        /\ wmsg.kind = "RINEX" => AcceptedMIDs = Range(DefaultMIDs)
        /\ wmsg.kind = "RINEX," =>
              AcceptedMIDs = Range(DefaultMIDs)
                               \cup {wmsg.list[i] % 256 : i \in 1..Len(wmsg.list)}

\* C6 as amended: ALL accepts 0..255, RINEX exactly the default set, and
\* RINEX,<list> with a list of at most WMSGSIZE - 12 identifiers (and fewer
\* than 300 characters) the default set plus each listed identifier taken
\* modulo 256 that is not 0.
C6_WantedSets ==
    Configured =>
        /\ wmsg.kind = "ALL" => AcceptedMIDs = 0..255
        /\ wmsg.kind = "RINEX" => AcceptedMIDs = Range(DefaultMIDs)
        /\ (wmsg.kind = "RINEX," /\ Len(wmsg.list) <= WMSGSIZE - Len(DefaultMIDs)) =>
              AcceptedMIDs = Range(DefaultMIDs) \cup ListedMIDs(wmsg.list)

C6_Witness ==
    /\ wmsg = [kind |-> "RINEX,", list |-> <<41, 99>>]
    /\ nLines = 2
    /\ last.toks = Frame(<<99, 1>>)
    /\ diag = "written MID"
    /\ AcceptedMIDs = Range(DefaultMIDs) \cup {41, 99}

\* --------------------------------------------------------------------- C7
\* C7: for a WMSG value that is a bare list, the list of wanted MIDs holds the
\* listed identifiers only: a default MID that is not listed is rejected.
C7_ListReplacesDefault ==
    (Configured /\ wmsg.kind = "LIST") =>
        \A m \in Range(DefaultMIDs) :
            m \notin ListedMIDs(wmsg.list) => ~wantedMsg(WANTEDMsg, m)

\* --------------------------------------------------------------------- C8
\* C8: a line of the interval that lacks the head marker, or has it with no
\* tail marker after it, writes nothing, leaves the count unchanged, logs the
\* header/tail warning and leaves extractMsgs reading.
C8_MissingMarkerSkipped ==
    [][ (/\ nLines' = nLines + 1
         /\ TagInWindow(last'.tag)
         /\ LacksHead(last') \/ LacksTail(last')) =>
            /\ outFile' = outFile
            /\ nMessages' = nMessages
            /\ diag' = "No message header or tailer"
            /\ pc' = "reading" ]_vars

\* --------------------------------------------------------------------- C9
\* C9: addWANTED never stores at an index outside 0..WMSGSIZE-1.
C9_NoStoreOutside == oobStores = <<>>

\* --------------------------------------------------------------------- C10
\* the dump is head, length, payload, checksum, tail with nothing else, the
\* payload of 1 up to MSGSIZE - 2 bytes, length and checksum right
WellFormedToks(toks) ==
    LET n == Len(toks) - 8
    IN  /\ n >= 1
        /\ n <= MSGSIZE - 2
        /\ \A i \in 1..Len(toks) : toks[i] # BAD
        /\ toks = Frame(SubSeq(toks, 5, n + 4))

\* C10: every line of the interval with a well formed message of 1 up to 2048
\* payload bytes and a wanted MID produces one record.
C10_CompleteUpToMax ==
    [][ (/\ nLines' = nLines + 1
         /\ TagInWindow(last'.tag)
         /\ WellFormedToks(last'.toks)
         /\ wantedMsg(WANTEDMsg, last'.toks[5])) =>
            /\ diag' = "written MID"
            /\ pc' # "fatal" => accepted' = Append(accepted, last') ]_vars

=============================================================================
